---- MODULE Spec2Model ----
(***************************************************************************)
(* A model of batch.py: the Lister (gather_filenames), the Partitioner     *)
(* (split_filepaths_into_batches), the Materializer (create_batch_folder,  *)
(* create_all_batches) and the command-line front end (initialize_parser,  *)
(* main).                                                                  *)
(*                                                                         *)
(* Python values are records [t, v, s]: t is the type, v the number of an  *)
(* int or bool, s the text of a str.  A path is <<directory, filename>>.   *)
(* A dict is the sequence of its <<key, value>> items in insertion order.  *)
(* The output root is a function from folder names to [exists, files],     *)
(* files being a set of <<basename, content>>.                             *)
(***************************************************************************)
EXTENDS Integers, Sequences, FiniteSets, TLC

\* Bounds of the model.
MaxFiles == 3          \* a source directory holds at most this many entries
MaxBatchSize == 3      \* a caller's batch_size ranges over -1..MaxBatchSize
MaxPreFolder == 2      \* folders "Batch 1".."Batch MaxPreFolder" may exist before the run

\* argparse default of -b/--batch_size.
DefaultBatchSize == 100

----------------------------------------------------------------------------
\* Python values

PyNone == [t |-> "none", v |-> 0, s |-> ""]
PyInt(n) == [t |-> "int", v |-> n, s |-> ""]
PyBool(b) == [t |-> "bool", v |-> IF b THEN 1 ELSE 0, s |-> ""]
PyStr(x) == [t |-> "str", v |-> 0, s |-> x]

\* bool(a), as `if shuffle:` evaluates it.
Truthy(a) ==
    CASE a.t = "none" -> FALSE
      [] a.t = "str" -> a.s # ""
      [] OTHER -> a.v # 0

Min(a, b) == IF a < b THEN a ELSE b

----------------------------------------------------------------------------
\* The source directory, the names of its entries and their absolute paths.
SourceDirectory == "/imgs"

Filenames == 1..MaxFiles

abspath_join(directory, filename) == <<directory, filename>>

Paths == { abspath_join(SourceDirectory, f) : f \in Filenames }

----------------------------------------------------------------------------
\* The process-wide random generator (module random).  The Mersenne Twister
\* is abstracted by a five-state generator: what the model keeps is that the
\* generator is deterministic, that random.seed(a) sets its state from a
\* alone, and that every draw advances the state.

RngStates == 0..4

RngNext(s) == (s + 2) % 5

\* random.seed(a): the state is a function of a (an int and a str of the same
\* digits seed differently).
random_seed(a) == IF a.t = "str" THEN (Len(a.s) + 3) % 5 ELSE a.v % 5

\* random.shuffle(x), Fisher-Yates from the last index down: index i (1-based)
\* is swapped with index randbelow(i) + 1.  Returns the list and the state.
swap(x, i, j) == [x EXCEPT ![i] = x[j], ![j] = x[i]]

shuffle_from[x \in Seq(Paths), i \in 0..(MaxFiles + 1), s \in RngStates] ==
    IF i < 2 THEN [x |-> x, rng |-> s]
    ELSE shuffle_from[swap(x, i, (RngNext(s) % i) + 1), i - 1, RngNext(s)]

random_shuffle(x, s) == shuffle_from[x, Len(x), s]

----------------------------------------------------------------------------
\* split_filepaths_into_batches

\* range(0, n, step): the sequence of offsets, or the exception it raises.
RECURSIVE offsets_from(_, _, _)
offsets_from(i, n, step) ==
    IF i >= n THEN << >> ELSE <<i>> \o offsets_from(i + step, n, step)

range_(n, step) ==
    IF step.t \notin {"int", "bool"} THEN [raised |-> "TypeError", seq |-> << >>]
    ELSE IF step.v = 0 THEN [raised |-> "ValueError", seq |-> << >>]
    ELSE IF step.v < 0 THEN [raised |-> "", seq |-> << >>]
    ELSE [raised |-> "", seq |-> offsets_from(0, n, step.v)]

\* enumerate(seq, start): the <<number, item>> pairs in order.
enumerate(seq, start) == [n \in 1..Len(seq) |-> <<start + n - 1, seq[n]>>]

\* x[i:i + size] for 0-based i and size > 0.
slice(x, i, size) == SubSeq(x, i + 1, Min(i + size, Len(x)))

\* Faulty variant: the shuffle flag is not consulted (the list is always shuffled).
seed_and_shuffle_always(all_image_paths, shuffle, seed, rng) ==
    LET s0 == IF seed.t # "none" THEN random_seed(seed) ELSE rng
    IN random_shuffle(all_image_paths, s0)

\* Faulty variant: the seed is not applied (random.seed is never called).
seed_and_shuffle_unseeded(all_image_paths, shuffle, seed, rng) ==
    IF Truthy(shuffle) THEN random_shuffle(all_image_paths, rng)
    ELSE [x |-> all_image_paths, rng |-> rng]

\* Lines 64-67: the seed and the in-place shuffle of the caller's list.
seed_and_shuffle(all_image_paths, shuffle, seed, rng) ==
    LET s0 == IF seed.t # "none" THEN random_seed(seed) ELSE rng
    IN IF Truthy(shuffle) THEN random_shuffle(all_image_paths, s0)
       ELSE [x |-> all_image_paths, rng |-> s0]

\* Faulty variant: the batches are numbered from 0 (enumerate without its start).
make_batches_from0(x, batch_size) ==
    LET r == range_(Len(x), batch_size)
        e == enumerate(r.seq, 0)
    IN [raised |-> r.raised,
        batches |-> [n \in 1..Len(e) |-> <<e[n][1], slice(x, e[n][2], batch_size.v)>>]]

\* Lines 68-72: the dict of batches, in insertion order.
make_batches(x, batch_size) ==
    LET r == range_(Len(x), batch_size)
        e == enumerate(r.seq, 1)
    IN [raised |-> r.raised,
        batches |-> [n \in 1..Len(e) |-> <<e[n][1], slice(x, e[n][2], batch_size.v)>>]]

\* The whole call: what is raised (if anything), the dict returned, the
\* caller's list as the call leaves it, and the generator's state after.
split_filepaths_into_batches(all_image_paths, batch_size, shuffle, seed, rng) ==
    LET sh == seed_and_shuffle(all_image_paths, shuffle, seed, rng)
        mb == make_batches(sh.x, batch_size)
    IN [raised |-> mb.raised, batches |-> mb.batches, paths |-> sh.x, rng |-> sh.rng]

----------------------------------------------------------------------------
\* State

VARIABLES
    pc,               \* where the process stands
    entry,            \* "main": the command line; "call": a caller of the functions
    args,             \* the configuration: directory, batch_size, shuffle, seed
    rng,              \* state of the process-wide random generator
    listing,          \* the path sequence as listed (the value handed to the Partitioner)
    all_image_paths,  \* the list object after the Partitioner worked on it
    batches_dict,     \* the batch collection
    fs,               \* the output root
    fs0,              \* the output root as the run found it
    cur,              \* position in batches_dict of the batch being materialized
    copied,           \* members of that batch copied so far
    failure,          \* the call that raised, "" if none
    prev              \* the previous Partitioner call of this process

vars == <<pc, entry, args, rng, listing, all_image_paths, batches_dict,
          fs, fs0, cur, copied, failure, prev>>

\* The possible listings: os.listdir yields the entries in any order,
\* gather_filenames turns each into an absolute path.

gather_filenames(directory, filenames) ==
    [n \in 1..Len(filenames) |-> abspath_join(directory, filenames[n])]

\* The orders os.listdir can yield for a directory holding any of Filenames.
ListdirResults ==
    UNION { { f \in [1..n -> Filenames] : \A a, b \in 1..n : a # b => f[a] # f[b] }
            : n \in 0..MaxFiles }

Listings == { gather_filenames(SourceDirectory, f) : f \in ListdirResults }

\* Seeds a caller passes: None or a small int.
Seeds == {PyNone, PyInt(0), PyInt(1)}

CallBatchSizes == { PyInt(n) : n \in (0 - 1)..MaxBatchSize }

\* Folder names: "Batch " + str(batch_no).
folder_name(batch_no) == <<"Batch", batch_no>>

FolderNames == { folder_name(n) : n \in 0..(MaxFiles + 1) }

NoFolder == [exists |-> FALSE, files |-> {}]

EmptyRoot == [f \in FolderNames |-> NoFolder]

NoCall == [status |-> "none", shuffle |-> PyNone, seed |-> PyNone,
           batches |-> << >>, paths |-> << >>]

----------------------------------------------------------------------------
\* The command line (initialize_parser, parser.parse_args)

\* A flag that is not given.
Absent == PyNone

\* The command lines of the model: -d is always given; -b, -s and -S are
\* given (argparse stores the text as a str: no type= is declared) or left out.
CommandLines ==
    [d : {PyStr(SourceDirectory)},
     b : {Absent, PyStr("2"), PyStr("0")},
     s : {Absent, PyStr(""), PyStr("False")},
     S : {Absent, PyStr("1")}]

OutputRoot == "cwd"

parse_args(argv) ==
    [directory |-> argv.d.s,
     batch_size |-> IF argv.b = Absent THEN PyInt(DefaultBatchSize) ELSE argv.b,
     shuffle |-> IF argv.s = Absent THEN PyBool(TRUE) ELSE argv.s,
     output_directory |-> OutputRoot,
     seed |-> IF argv.S = Absent THEN PyNone ELSE argv.S]

\* The configurations a caller of the functions passes (typed values).
CallArgs ==
    [directory : {SourceDirectory},
     batch_size : CallBatchSizes,
     shuffle : {PyBool(TRUE), PyBool(FALSE)},
     output_directory : {OutputRoot},
     seed : Seeds]

\* main, lines 158-159: the Partitioner is called without the seed.
main_split(all_image_paths_, args_, rng_) ==
    split_filepaths_into_batches(all_image_paths_, args_.batch_size, args_.shuffle,
                                 PyNone, rng_)

\* A caller that passes all four parameters.
call_split(all_image_paths_, args_, rng_) ==
    split_filepaths_into_batches(all_image_paths_, args_.batch_size, args_.shuffle,
                                 args_.seed, rng_)

\* The Partitioner call of a run.
partitioner_call(entry_, all_image_paths_, args_, rng_) ==
    IF entry_ = "main" THEN main_split(all_image_paths_, args_, rng_)
    ELSE call_split(all_image_paths_, args_, rng_)

----------------------------------------------------------------------------
\* The Materializer

basename(path) == path[2]

\* The bytes of a source file.
file_content(path) == <<"bytes", path[1], path[2]>>

\* What a run may find under the output root: at most one empty folder and at
\* most one folder holding a file left by something else.
StaleFiles == { <<1, <<"stale">>>> }

InitialRoots ==
    { [f \in FolderNames |->
          IF e # 0 /\ f = folder_name(e) THEN [exists |-> TRUE, files |-> {}]
          ELSE IF s # 0 /\ f = folder_name(s) THEN [exists |-> TRUE, files |-> StaleFiles]
          ELSE NoFolder]
      : <<e, s>> \in { p \in (0..MaxPreFolder) \X (0..MaxPreFolder) :
                          p[1] = 0 \/ p[1] # p[2] } }

\* Faulty variant: an existing folder is kept and filled (makedirs with exist_ok).
prepare_folder_merge(root, folder, makedirs_ok) ==
    IF root[folder].exists THEN [raised |-> "", fs |-> root]
    ELSE IF ~makedirs_ok
    THEN [raised |-> "makedirs", fs |-> [root EXCEPT ![folder] = NoFolder]]
    ELSE [raised |-> "", fs |-> [root EXCEPT ![folder] = [exists |-> TRUE, files |-> {}]]]

\* Faulty variant: an existing folder is removed with its content (shutil.rmtree).
prepare_folder_rmtree(root, folder, makedirs_ok) ==
    IF ~makedirs_ok
    THEN [raised |-> "makedirs", fs |-> [root EXCEPT ![folder] = NoFolder]]
    ELSE [raised |-> "", fs |-> [root EXCEPT ![folder] = [exists |-> TRUE, files |-> {}]]]

\* create_batch_folder, lines 90-93: os.path.exists, os.rmdir (raises on a
\* non-empty directory), os.makedirs.  makedirs_ok is the environment's answer.
prepare_folder(root, folder, makedirs_ok) ==
    IF root[folder].exists /\ root[folder].files # {}
    THEN [raised |-> "rmdir", fs |-> root]
    ELSE IF ~makedirs_ok
    THEN [raised |-> "makedirs", fs |-> [root EXCEPT ![folder] = NoFolder]]
    ELSE [raised |-> "", fs |-> [root EXCEPT ![folder] = [exists |-> TRUE, files |-> {}]]]

\* shutil.copy(filepath, folder_path): writes folder/basename(filepath),
\* replacing a file of that name.
shutil_copy(root, filepath, folder) ==
    [root EXCEPT ![folder].files =
        { p \in @ : p[1] # basename(filepath) }
            \cup { <<basename(filepath), file_content(filepath)>> }]

----------------------------------------------------------------------------
\* One run: main (entry = "main"), or a caller doing what main does with
\* typed arguments and the seed passed on (entry = "call").

Init ==
    /\ pc = "Listing"
    /\ \/ entry = "main" /\ \E argv \in CommandLines : args = parse_args(argv)
       \/ entry = "call" /\ args \in CallArgs
    /\ rng \in RngStates
    /\ listing = << >>
    /\ all_image_paths = << >>
    /\ batches_dict = << >>
    /\ fs \in InitialRoots
    /\ fs0 = fs
    /\ cur = 0 /\ copied = 0 /\ failure = ""
    /\ prev = NoCall

Fail(what) ==
    /\ pc' = "Failed"
    /\ failure' = what

\* gather_filenames returns.
List ==
    /\ pc = "Listing"
    /\ \E l \in Listings : listing' = l /\ all_image_paths' = l
    /\ pc' = "Partitioning"
    /\ UNCHANGED <<entry, args, rng, batches_dict, fs, fs0, cur, copied, failure, prev>>

\* os.listdir raises (the directory is missing or unreadable).
ListFail ==
    /\ pc = "Listing"
    /\ Fail("listdir")
    /\ UNCHANGED <<entry, args, rng, listing, all_image_paths, batches_dict,
                   fs, fs0, cur, copied, prev>>

\* split_filepaths_into_batches returns or raises; create_all_batches starts.
Partition ==
    /\ pc = "Partitioning"
    /\ \E r \in {partitioner_call(entry, all_image_paths, args, rng)} :
          /\ all_image_paths' = r.paths
          /\ rng' = r.rng
          /\ batches_dict' = r.batches
          /\ IF r.raised = "" THEN pc' = "Materializing" /\ failure' = failure
             ELSE Fail(r.raised)
    /\ UNCHANGED <<entry, args, listing, fs, fs0, cur, copied, prev>>

BatchDone == IF cur = 0 THEN TRUE ELSE copied = Len(batches_dict[cur][2])

\* create_all_batches takes the next item of the dict and create_batch_folder
\* readies its folder.
StartBatch ==
    /\ pc = "Materializing"
    /\ BatchDone
    /\ cur < Len(batches_dict)
    /\ \E makedirs_ok \in BOOLEAN :
          \E r \in {prepare_folder(fs, folder_name(batches_dict[cur + 1][1]), makedirs_ok)} :
             /\ fs' = r.fs
             /\ IF r.raised = "" THEN pc' = pc /\ failure' = failure
                ELSE Fail(r.raised)
    /\ cur' = cur + 1
    /\ copied' = 0
    /\ UNCHANGED <<entry, args, rng, listing, all_image_paths, batches_dict, fs0, prev>>

\* The next member of the batch is copied.
Copy ==
    /\ pc = "Materializing"
    /\ cur > 0
    /\ copied < Len(batches_dict[cur][2])
    /\ fs' = shutil_copy(fs, batches_dict[cur][2][copied + 1],
                         folder_name(batches_dict[cur][1]))
    /\ copied' = copied + 1
    /\ UNCHANGED <<pc, entry, args, rng, listing, all_image_paths, batches_dict,
                   fs0, cur, failure, prev>>

\* Faulty variant: a failed copy removes the folder of the batch in progress.
CopyFail_rollback ==
    /\ pc = "Materializing"
    /\ cur > 0
    /\ copied < Len(batches_dict[cur][2])
    /\ Fail("copy")
    /\ fs' = [fs EXCEPT ![folder_name(batches_dict[cur][1])] = NoFolder]
    /\ UNCHANGED <<entry, args, rng, listing, all_image_paths, batches_dict,
                   fs0, cur, copied, prev>>

\* Faulty variant: a failed copy is caught and the loop goes on with the next member.
CopyFail_swallowed ==
    /\ pc = "Materializing"
    /\ cur > 0
    /\ copied < Len(batches_dict[cur][2])
    /\ failure' = "copy"
    /\ copied' = copied + 1
    /\ UNCHANGED <<pc, entry, args, rng, listing, all_image_paths, batches_dict,
                   fs, fs0, cur, prev>>

\* shutil.copy raises (source vanished or is a directory, disk full, ...).
CopyFail ==
    /\ pc = "Materializing"
    /\ cur > 0
    /\ copied < Len(batches_dict[cur][2])
    /\ Fail("copy")
    /\ UNCHANGED <<entry, args, rng, listing, all_image_paths, batches_dict,
                   fs, fs0, cur, copied, prev>>

\* The dict is exhausted: create_all_batches and main return.
Finish ==
    /\ pc = "Materializing"
    /\ BatchDone
    /\ cur = Len(batches_dict)
    /\ pc' = "Done"
    /\ UNCHANGED <<entry, args, rng, listing, all_image_paths, batches_dict,
                   fs, fs0, cur, copied, failure, prev>>

Next == List \/ ListFail \/ Partition \/ StartBatch \/ Copy \/ CopyFail \/ Finish

Spec == Init /\ [][Next]_vars

----------------------------------------------------------------------------
\* A process that calls split_filepaths_into_batches again and again on
\* fresh copies of one listing with one batch size, choosing the shuffle flag
\* and the seed at each call.  The generator's state carries over from call
\* to call.

InitPartition ==
    /\ pc = "idle"
    /\ entry = "call"
    /\ \E b \in CallBatchSizes :
          args = [directory |-> SourceDirectory, batch_size |-> b,
                  shuffle |-> PyBool(FALSE), output_directory |-> OutputRoot,
                  seed |-> PyNone]
    /\ rng \in RngStates
    /\ listing \in Listings
    /\ all_image_paths = listing
    /\ batches_dict = << >>
    /\ fs = EmptyRoot /\ fs0 = EmptyRoot
    /\ cur = 0 /\ copied = 0 /\ failure = ""
    /\ prev = NoCall

Invoke ==
    \E shuffle \in BOOLEAN, seed \in Seeds :
        \E r \in {split_filepaths_into_batches(listing, args.batch_size,
                                                PyBool(shuffle), seed, rng)} :
           /\ pc' = IF r.raised = "" THEN "returned" ELSE "raised"
           /\ failure' = r.raised
           /\ batches_dict' = r.batches
           /\ all_image_paths' = r.paths
           /\ rng' = r.rng
           /\ args' = [args EXCEPT !.shuffle = PyBool(shuffle), !.seed = seed]
           /\ prev' = IF pc = "idle" THEN NoCall
                      ELSE [status |-> pc, shuffle |-> args.shuffle, seed |-> args.seed,
                            batches |-> batches_dict, paths |-> all_image_paths]
           /\ UNCHANGED <<entry, listing, fs, fs0, cur, copied>>

NextPartition == Invoke

SpecPartition == InitPartition /\ [][NextPartition]_vars

----------------------------------------------------------------------------
\* Properties of the Partitioner (checked under SpecPartition)

\* The members of all the batches of dict d, in dict order.
RECURSIVE Members(_)
Members(d) == IF d = << >> THEN << >> ELSE Head(d)[2] \o Members(Tail(d))

SeqToSet(x) == { x[n] : n \in 1..Len(x) }

CeilDiv(n, b) == (n + b - 1) \div b

Returned == pc = "returned"

\* C1 (as claimed): whenever the call returns a batch collection, whatever the
\* batch size and the shuffle flag, the batches' members are the input's
\* entries, each exactly once.
C1_PartitionComplete ==
    Returned =>
        /\ Len(Members(batches_dict)) = Len(listing)
        /\ SeqToSet(Members(batches_dict)) = SeqToSet(listing)

\* C2: for batch_size > 0 the call returns k = ceil(N / batch_size) batches
\* numbered 1..k in order; all but the last hold batch_size members, the last
\* holds N - batch_size*(k-1), between 1 and batch_size; N = 0 gives no batch
\* and batch_size >= N > 0 one batch holding every entry.
C2_PartitionSizing ==
    args.batch_size.v > 0 /\ pc # "idle" =>
        LET N == Len(listing)
            b == args.batch_size.v
            k == CeilDiv(N, b)
        IN /\ Returned
           /\ Len(batches_dict) = k
           /\ \A j \in 1..k : batches_dict[j][1] = j
           /\ \A j \in 1..(k - 1) : Len(batches_dict[j][2]) = b
           /\ k > 0 => /\ Len(batches_dict[k][2]) = N - b * (k - 1)
                       /\ Len(batches_dict[k][2]) \in 1..b
           /\ N = 0 => batches_dict = << >>
           /\ (b >= N /\ N > 0) =>
                 /\ Len(batches_dict) = 1
                 /\ SeqToSet(batches_dict[1][2]) = SeqToSet(listing)

C2_Witness ==
    /\ Returned
    /\ Len(listing) = 3
    /\ args.batch_size.v = 2
    /\ Len(batches_dict) = 2
    /\ Len(batches_dict[2][2]) = 1

\* C3: with shuffle disabled and batch_size > 0, batch j is the slice
\* input[(j-1)*batch_size : j*batch_size] in listing order, and the input list
\* is left in its original order.
C3_NoShuffleIdentity ==
    (pc # "idle" /\ ~Truthy(args.shuffle)) =>
        /\ all_image_paths = listing
        /\ (Returned /\ args.batch_size.v > 0) =>
              LET N == Len(listing)
                  b == args.batch_size.v
              IN /\ Len(batches_dict) = CeilDiv(N, b)
                 /\ \A j \in 1..Len(batches_dict) :
                       batches_dict[j] =
                           <<j, SubSeq(listing, (j - 1) * b + 1, Min(j * b, N))>>

C3_Witness ==
    /\ Returned
    /\ ~Truthy(args.shuffle)
    /\ Len(listing) = 3
    /\ args.batch_size.v = 2
    /\ batches_dict = <<<<1, SubSeq(listing, 1, 2)>>, <<2, SubSeq(listing, 3, 3)>>>>

\* C4: two calls with shuffle enabled, the same non-None seed, the same input
\* and the same batch size end alike and return the same batch collection,
\* whatever state earlier calls left the generator in.
C4_Determinism ==
    (/\ prev.status # "none"
     /\ Truthy(prev.shuffle) /\ Truthy(args.shuffle)
     /\ args.seed.t # "none" /\ prev.seed = args.seed) =>
        /\ prev.status = pc
        /\ prev.batches = batches_dict
        /\ prev.paths = all_image_paths

\* Two seeded shuffling calls of three entries that did permute the input.
C4_Witness ==
    /\ prev.status = "returned" /\ Returned
    /\ Truthy(prev.shuffle) /\ Truthy(args.shuffle)
    /\ args.seed.t # "none" /\ prev.seed = args.seed
    /\ Len(listing) = 3
    /\ args.batch_size.v = 2
    /\ all_image_paths # listing

----------------------------------------------------------------------------
\* Properties of a run (checked under Spec)

Partitioned == pc \in {"Materializing", "Done"} \/ (pc = "Failed" /\ cur > 0)

\* The folder of the n-th item of the dict, and the files a complete copy of
\* the first m members of that item puts there.
FolderOf(n) == folder_name(batches_dict[n][1])

CopiesOf(n, m) ==
    { <<basename(batches_dict[n][2][i]), file_content(batches_dict[n][2][i])>>
      : i \in 1..m }

Complete(n) ==
    /\ fs[FolderOf(n)].exists
    /\ fs[FolderOf(n)].files = CopiesOf(n, Len(batches_dict[n][2]))

BatchFolders == { FolderOf(n) : n \in 1..Len(batches_dict) }

\* C5 (as claimed): in a run of the command line with -S given and shuffling
\* on, the batch collection is the one the seed determines: the one a seeded
\* shuffle of the listing yields, whatever state the generator started in.
C5_SeedReachesPartitioner ==
    (entry = "main" /\ Partitioned /\ args.seed # PyNone /\ Truthy(args.shuffle)) =>
        batches_dict =
            make_batches(random_shuffle(listing, random_seed(args.seed)).x,
                         args.batch_size).batches

NonPositive(b) == (b.t = "int" /\ b.v <= 0) \/ (b.t = "str" /\ b.s = "0")

\* C6 (as claimed): with batch_size <= 0 the run never completes normally and
\* never touches the output root; if it has ended, it ended in the
\* Partitioner's (or the Lister's) error.
C6_NonPositiveRejected ==
    NonPositive(args.batch_size) =>
        /\ pc \notin {"Materializing", "Done"}
        /\ fs = fs0
        /\ pc = "Failed" => failure \in {"listdir", "ValueError", "TypeError"}

\* C7 (as claimed): after create_all_batches completes, the folder of every
\* batch exists and holds exactly the copies of the batch's members, and no
\* folder exists for a number that is not a batch number of the run.
C7_FidelityNoOtherFolder ==
    pc = "Done" =>
        /\ \A n \in 1..Len(batches_dict) : Complete(n)
        /\ \A f \in FolderNames \ BatchFolders : ~fs[f].exists

\* C7 (amended): after create_all_batches completes, the folder of every batch
\* exists and holds exactly the copies (basename and content) of the batch's
\* members, and every folder that is not a batch's is as the run found it
\* (the run created none; an empty collection leaves the root untouched).
C7_Fidelity ==
    pc = "Done" =>
        /\ \A n \in 1..Len(batches_dict) : Complete(n)
        /\ \A f \in FolderNames \ BatchFolders : fs[f] = fs0[f]
        /\ batches_dict = << >> => fs = fs0

\* Two batches materialized, the first into a folder that existed empty.
C7_Witness ==
    /\ pc = "Done"
    /\ Len(listing) = 3
    /\ Len(batches_dict) = 2
    /\ Truthy(args.shuffle)
    /\ fs0[folder_name(1)].exists
    /\ fs[folder_name(1)].files # {}

\* C8: when a copy fails in batch j the run stops there with nothing undone:
\* the folders of the batches before j are complete, the folder of j holds
\* exactly the members copied before the failing one (not all of them), and
\* the folders of the batches after j are as the run found them.
C8_FailureLeavesPrefix ==
    (pc = "Failed" /\ failure = "copy") =>
        /\ cur \in 1..Len(batches_dict)
        /\ \A n \in 1..(cur - 1) : Complete(n)
        /\ copied < Len(batches_dict[cur][2])
        /\ fs[FolderOf(cur)].exists
        /\ fs[FolderOf(cur)].files = CopiesOf(cur, copied)
        /\ \A n \in (cur + 1)..Len(batches_dict) : fs[FolderOf(n)] = fs0[FolderOf(n)]
        /\ \A f \in FolderNames \ BatchFolders : fs[f] = fs0[f]

\* The second member of batch 1 failed: one file copied, batch 2 not begun.
C8_Witness ==
    /\ pc = "Failed" /\ failure = "copy"
    /\ Len(batches_dict) = 2
    /\ cur = 1 /\ copied = 1
    /\ fs[FolderOf(1)].files # {}
    /\ ~fs[FolderOf(2)].exists

\* C9: a folder that exists and is empty is replaced by a fresh one that
\* receives only this batch's members; a folder that exists and is not empty
\* makes os.rmdir raise: the run stops, the folder is as it was and no member
\* of the batch is copied.  Content is never merged.
C9_PreExistingFolder ==
    /\ (pc = "Failed" /\ failure = "rmdir") =>
          /\ fs0[FolderOf(cur)].files # {}
          /\ fs[FolderOf(cur)] = fs0[FolderOf(cur)]
          /\ copied = 0
    /\ \A n \in 1..cur :
          fs0[FolderOf(n)].exists =>
              IF fs0[FolderOf(n)].files # {}
              THEN n = cur /\ pc = "Failed" /\ failure = "rmdir"
              ELSE /\ failure # "rmdir" \/ n < cur
                   /\ fs[FolderOf(n)].files =
                          CopiesOf(n, IF n < cur THEN Len(batches_dict[n][2]) ELSE copied)
    /\ \A f \in FolderNames : fs[f].files \cap StaleFiles # {} => fs[f] = fs0[f]

\* Batch 1 went into a folder that existed empty; batch 2's folder held a file.
C9_Witness ==
    /\ pc = "Failed" /\ failure = "rmdir"
    /\ cur = 2
    /\ fs0[FolderOf(1)].exists
    /\ fs[FolderOf(1)].files # {}
    /\ fs[FolderOf(2)].files = StaleFiles

\* The same run under the scheduling of a sequential program: while a step
\* is possible, one is taken.
FairSpec == Spec /\ WF_vars(Next)

Terminal == pc \in {"Done", "Failed"}

\* The steps a run has left at most: the dict items not begun (a folder and
\* the copies of each), the copies left in the batch in progress, the return.
Rank ==
    CASE pc = "Listing" -> 2 * MaxFiles + 3
      [] pc = "Partitioning" -> 2 * Len(all_image_paths) + 2
      [] pc = "Materializing" ->
            1 + (Len(batches_dict) - cur)
              + Len(Members(SubSeq(batches_dict, cur + 1, Len(batches_dict))))
              + (IF cur > 0 THEN Len(batches_dict[cur][2]) - copied ELSE 0)
      [] OTHER -> 0

\* A step is possible (Partition has no guard but pc).
CanStep ==
    \/ pc = "Partitioning"
    \/ ENABLED (List \/ ListFail \/ StartBatch \/ Copy \/ CopyFail \/ Finish)

C10_Step ==
    /\ pc = "Listing" => pc' \in {"Partitioning", "Failed"}
    /\ pc = "Partitioning" => pc' \in {"Materializing", "Failed"}
    /\ pc = "Materializing" =>
          /\ pc' \in {"Materializing", "Done", "Failed"}
          /\ cur' \in {cur, cur + 1}
          /\ cur' = cur + 1 =>
                /\ cur > 0 => copied = Len(batches_dict[cur][2])
                /\ batches_dict[cur'][1] = cur'
          /\ pc' = "Done" =>
                /\ cur = Len(batches_dict)
                /\ cur > 0 => copied = Len(batches_dict[cur][2])
    /\ failure' # failure => pc' = "Failed"
    /\ ~Terminal
    /\ Rank' < Rank /\ Rank' >= 0
    /\ (Terminal \/ CanStep)'

\* C10: a run goes Listing, Partitioning, Materializing batch 1, 2, ..., k in
\* ascending order (a batch starts only when the one before has had its last
\* copy), Done; a failure leads straight to Failed; Done and Failed are never
\* left; every run reaches one of them: each step lowers Rank, a natural
\* number, and leads to a state that is terminal or has a step to take, so
\* under FairSpec a run ends within 2 * MaxFiles + 3 steps.
C10_RunStateMachine == [][C10_Step]_vars

\* Three batches materialized one after the other.
C10_Witness ==
    /\ pc = "Done"
    /\ Len(batches_dict) = 3
    /\ cur = 3
    /\ \A n \in 1..3 : Complete(n)

====
